---------------------------- MODULE Spec2Model ----------------------------
(***************************************************************************)
(* Model of traefik-docker-http-provider-server.                           *)
(*                                                                         *)
(*   lib.rs                    label extractor and container adapter       *)
(*   docker.rs                 discovery of the labelled containers        *)
(*   dynamic_configuration.rs  configuration builder and document          *)
(*   main.rs                   the /dynamic_configuration handler          *)
(*                                                                         *)
(* Strings are sequences of one-character strings, so that the label       *)
(* regexes, the byte-wise string order, the name slicing and the port      *)
(* parsing are computed character by character as the code computes them.  *)
(* Option<T> is a sequence of length at most one: <<>> is None and <<x>>   *)
(* is Some(x).                                                             *)
(***************************************************************************)
EXTENDS Integers, Sequences, FiniteSets, TLC

VARIABLES
    labels,      \* lib.rs: the label map extract_traefik_config was called on
    routers,     \* lib.rs:80  local `routers` of the last extraction
    services,    \* lib.rs:103 local `services` of the last extraction
    config,      \* lib.rs:77 the Option<TraefikedContainerConfig> returned
    xpc,         \* "ready" before extract_traefik_config has run, "done" after
    base_url,    \* main.rs:43 the Extension<Url> parsed from BASE_URL
    engine,      \* docker.rs:7 what list_containers returns
    pc,          \* position of the /dynamic_configuration handler
    scanned,     \* docker.rs:10 how many containers the iterator chain consumed
    labeled,     \* main.rs:59 labeled_containers
    idx,         \* main.rs:62 how many containers the loop handed to the builder
    builder,     \* main.rs:61 dynamic_configuration_builder
    last,        \* record of the last add_container call
    adapter,     \* the outcome of TryFrom for each scanned container
    response     \* what the handler answered

vars == <<labels, routers, services, config, xpc,
          base_url, engine, pc, scanned, labeled, idx, builder, last, adapter, response>>

----------------------------------------------------------------------------
(* Bounds *)

MaxLabels == 5
MaxContainers == 2

----------------------------------------------------------------------------
(* Strings *)

None == << >>
Some(x) == <<x>>
IsSome(o) == Len(o) = 1
Unwrap(o) == o[1]

RECURSIVE Cat(_)
Cat(ss) == IF Len(ss) = 0 THEN << >> ELSE Head(ss) \o Cat(Tail(ss))

\* A character outside ASCII (two bytes in UTF-8, above every ASCII byte).
EAcute == "e-acute"

\* The characters that occur, in byte order (String's Ord compares bytes).
Alphabet ==
    << "+", "-", ".", "/", "0", "1", "2", "3", "4", "5", "6", "7", "8", "9",
       "S", "a", "b", "c", "d", "e", "f", "g", "h", "i", "k", "l", "n", "o",
       "p", "r", "s", "t", "u", "v", "x", "y", EAcute >>

CharCode(c) == CHOOSE i \in 1..Len(Alphabet) : Alphabet[i] = c

\* Number of bytes of a character in UTF-8.
Utf8Len(c) == IF c = EAcute THEN 2 ELSE 1

RECURSIVE StrLess(_, _)
StrLess(a, b) ==
    IF Len(b) = 0 THEN FALSE
    ELSE IF Len(a) = 0 THEN TRUE
    ELSE IF a[1] # b[1] THEN CharCode(a[1]) < CharCode(b[1])
    ELSE StrLess(Tail(a), Tail(b))

StrLeq(a, b) == a = b \/ StrLess(a, b)

----------------------------------------------------------------------------
(* lib.rs: the label regexes *)

W_traefik == <<"t", "r", "a", "e", "f", "i", "k">>
W_http == <<"h", "t", "t", "p">>
W_routers == <<"r", "o", "u", "t", "e", "r", "s">>
W_services == <<"s", "e", "r", "v", "i", "c", "e", "s">>
W_rule == <<"r", "u", "l", "e">>
W_loadbalancer == <<"l", "o", "a", "d", "b", "a", "l", "a", "n", "c", "e", "r">>
W_server == <<"s", "e", "r", "v", "e", "r">>
W_port == <<"p", "o", "r", "t">>
Dot == <<".">>

\* An unescaped `.` of a pattern: any character (no label holds a line break).
AnyChar == "ANY"
Wild == <<AnyChar>>

\* A pattern  pre (.+) suf : what stands before and after the capture group.
\* r"traefik\.http\.routers\.(.+)\.rule"
ROUTERS_LABEL_REGEX ==
    [pre |-> Cat(<<W_traefik, Dot, W_http, Dot, W_routers, Dot>>),
     suf |-> Cat(<<Dot, W_rule>>)]

\* r"traefik\.http\.services.(.+).loadbalancer.server.port"
SERVICE_LABEL_REGEX ==
    [pre |-> Cat(<<W_traefik, Dot, W_http, Dot, W_services, Wild>>),
     suf |-> Cat(<<Wild, W_loadbalancer, Wild, W_server, Wild, W_port>>)]

MatchAt(key, i, pat) ==
    /\ i + Len(pat) - 1 <= Len(key)
    /\ \A k \in 1..Len(pat) : pat[k] = AnyChar \/ key[i + k - 1] = pat[k]

SetMin(S) == CHOOSE x \in S : \A y \in S : x <= y
SetMax(S) == CHOOSE x \in S : \A y \in S : y <= x

\* Regex::captures(key).and_then(|c| c.get(1)): an unanchored search, the
\* leftmost match, the group (.+) greedy and at least one character long.
RegexCaptures(re, key) ==
    LET n == Len(re.pre)
        Ends(i) == {j \in (i + n + 1)..Len(key) : MatchAt(key, j, re.suf)}
        Starts == {i \in 1..Len(key) : MatchAt(key, i, re.pre) /\ Ends(i) # {}}
    IN  IF Starts = {} THEN None
        ELSE LET i == SetMin(Starts)
                 j == SetMax(Ends(i))
             IN  Some(SubSeq(key, i + n, j - 1))

----------------------------------------------------------------------------
(* str::parse::<u16> *)

U16Max == 65535

Digits == <<"0", "1", "2", "3", "4", "5", "6", "7", "8", "9">>
IsDigit(c) == \E d \in 1..Len(Digits) : Digits[d] = c
DigitVal(c) == (CHOOSE d \in 1..Len(Digits) : Digits[d] = c) - 1

RECURSIVE ParseDigits(_, _)
ParseDigits(acc, s) ==
    IF Len(s) = 0 THEN Some(acc)
    ELSE IF ~IsDigit(s[1]) THEN None
    ELSE LET v == acc * 10 + DigitVal(s[1])
         IN  IF v > U16Max THEN None ELSE ParseDigits(v, Tail(s))

\* An optional "+", then at least one digit, nothing else, no overflow.
ParseU16(s) ==
    LET d == IF Len(s) > 0 /\ s[1] = "+" THEN Tail(s) ELSE s
    IN  IF Len(d) = 0 THEN None ELSE ParseDigits(0, d)

----------------------------------------------------------------------------
(* The label keys and values the model draws label maps from *)

RouterKey(name) == Cat(<<W_traefik, Dot, W_http, Dot, W_routers, Dot, name, Dot, W_rule>>)
ServiceKey(name) ==
    Cat(<<W_traefik, Dot, W_http, Dot, W_services, Dot, name, Dot,
          W_loadbalancer, Dot, W_server, Dot, W_port>>)

\* traefik.http.routers.a.ruleSyntax (a label of Traefik v3)
RuleSyntaxKey(name) == RouterKey(name) \o <<"S", "y", "n", "t", "a", "x">>
\* traefik.http.routers.c-rule
DashedRouterKey(name) == Cat(<<W_traefik, Dot, W_http, Dot, W_routers, Dot, name, <<"-">>, W_rule>>)
\* traefik.http.services.c.loadbalancer-server.port
DashedServiceKey(name) ==
    Cat(<<W_traefik, Dot, W_http, Dot, W_services, Dot, name, Dot,
          W_loadbalancer, <<"-">>, W_server, Dot, W_port>>)

NameA == <<"a">>
NameB == <<"b">>
NameC == <<"c">>

LabelKeys ==
    { RouterKey(NameA), RouterKey(NameB), RuleSyntaxKey(NameA), DashedRouterKey(NameC),
      ServiceKey(NameA), ServiceKey(NameB), DashedServiceKey(NameC) }

RuleH == <<"h">>
Port80 == <<"8", "0">>
Port65536 == <<"6", "5", "5", "3", "6">>

LabelValues == { RuleH, Port80, Port65536 }

\* HashMap<String, String>: a function from its keys to their values.
LabelMaps ==
    UNION { [S -> LabelValues] : S \in { T \in SUBSET LabelKeys : Cardinality(T) <= MaxLabels } }

RECURSIVE Arrangements(_)
Arrangements(S) ==
    IF S = {} THEN { << >> }
    ELSE UNION { { <<x>> \o p : p \in Arrangements(S \ {x}) } : x \in S }

ArrangementsOf == [n \in 0..MaxLabels |-> Arrangements(1..n)]

RECURSIVE SetToSeq(_)
SetToSeq(S) ==
    IF S = {} THEN << >>
    ELSE LET x == CHOOSE y \in S : TRUE IN <<x>> \o SetToSeq(S \ {x})

\* HashMap::iter visits the entries in an order the code does not control:
\* every arrangement of the keys.
IterOrders(S) ==
    LET ks == SetToSeq(S)
    IN  { [i \in 1..Len(ks) |-> ks[p[i]]] : p \in ArrangementsOf[Len(ks)] }

----------------------------------------------------------------------------
(* lib.rs: extract_traefik_config *)

\* ROUTERS_LABEL_REGEX.captures(label_key).and_then(|captures| captures.get(1))
RouterCapture == [k \in LabelKeys |-> RegexCaptures(ROUTERS_LABEL_REGEX, k)]
\* SERVICE_LABEL_REGEX.captures(label_key).and_then(|captures| captures.get(1))
ServiceCapture == [k \in LabelKeys |-> RegexCaptures(SERVICE_LABEL_REGEX, k)]

\* filter_map of lib.rs:82-87 over the entries in iteration order.
RECURSIVE RouterPairs(_, _)
RouterPairs(lbls, order) ==
    IF Len(order) = 0 THEN << >>
    ELSE LET k == Head(order)
             rest == RouterPairs(lbls, Tail(order))
         IN  IF IsSome(RouterCapture[k])
             THEN << <<Unwrap(RouterCapture[k]), lbls[k]>> >> \o rest
             ELSE rest

\* filter_map of lib.rs:105-116: a value that is no u16 drops the entry.
RECURSIVE ServicePairs(_, _)
ServicePairs(lbls, order) ==
    IF Len(order) = 0 THEN << >>
    ELSE LET k == Head(order)
             rest == ServicePairs(lbls, Tail(order))
         IN  IF IsSome(ServiceCapture[k]) /\ IsSome(ParseU16(lbls[k]))
             THEN << <<Unwrap(ServiceCapture[k]), Unwrap(ParseU16(lbls[k]))>> >> \o rest
             ELSE rest

\* x goes behind every element whose name is not greater: the sort is stable.
InsertByName(sorted, x) ==
    LET n == Cardinality({i \in 1..Len(sorted) : StrLeq(sorted[i][1], x[1])})
    IN  SubSeq(sorted, 1, n) \o <<x>> \o SubSeq(sorted, n + 1, Len(sorted))

\* .sorted_by(|a, b| Ord::cmp(&a.0, &b.0))
RECURSIVE SortedByName(_)
SortedByName(s) ==
    IF Len(s) = 0 THEN << >>
    ELSE InsertByName(SortedByName(SubSeq(s, 1, Len(s) - 1)), s[Len(s)])

SinglePort(router_name, rule) ==
    [tag |-> "SinglePort", router_name |-> router_name, rule |-> rule]

MultiPortConfig(router, service) ==
    [config |-> [router_name |-> router[1], rule |-> router[2]],
     service_name |-> service[1], target_port |-> service[2]]

MultiplePorts(entries) == [tag |-> "MultiplePorts", entries |-> entries]

\* routers.into_iter().zip(services).map(..).collect()
ZipConfigs(rs, ss) == [i \in 1..Len(rs) |-> MultiPortConfig(rs[i], ss[i])]

\* The locals `routers` and `services` and the value returned.
extract_traefik_config(lbls, order) ==
    LET rs == SortedByName(RouterPairs(lbls, order))
    IN  IF Len(rs) = 0
        THEN [routers |-> rs, services |-> << >>, config |-> None]
        ELSE IF Len(rs) = 1
        THEN [routers |-> rs, services |-> << >>,
              config |-> Some(SinglePort(rs[1][1], rs[1][2]))]
        ELSE LET ss == SortedByName(ServicePairs(lbls, order))
             IN  IF Len(ss) # Len(rs)
                 THEN [routers |-> rs, services |-> ss, config |-> None]
                 ELSE [routers |-> rs, services |-> ss,
                       config |-> Some(MultiplePorts(ZipConfigs(rs, ss)))]

----------------------------------------------------------------------------
(* The url crate, as far as the builder uses it *)

Url(scheme, host, port) == [scheme |-> scheme, host |-> host, port |-> port]

\* url::parser::default_port
DefaultPort(scheme) ==
    IF scheme \in {"http", "ws"} THEN Some(80)
    ELSE IF scheme \in {"https", "wss"} THEN Some(443)
    ELSE IF scheme = "ftp" THEN Some(21)
    ELSE None

\* Url::set_port(Some(port)): refused without a host or for file:, and the
\* scheme's default port is stored as no port.
set_port(url, port) ==
    IF ~IsSome(url.host) \/ url.host = Some("") \/ url.scheme = "file"
    THEN [ok |-> FALSE, url |-> url]
    ELSE [ok |-> TRUE,
          url |-> [url EXCEPT !.port = IF Some(port) = DefaultPort(url.scheme)
                                       THEN None ELSE Some(port)]]

\* The values BASE_URL may parse to (main.rs:44-46).
BaseUrls ==
    { Url("http", Some("192.168.1.100"), None),
      Url("https", Some("gateway.local"), Some(8443)),
      Url("file", None, None) }

----------------------------------------------------------------------------
(* dynamic_configuration.rs: the builder *)

\* A map without entries.
EmptyMap == << >>

\* Mutant of MapInsert: an entry already under the key is kept.
MapInsert_keep(m, k, v) == [x \in (DOMAIN m) \cup {k} |-> IF x \in DOMAIN m THEN m[x] ELSE v]

\* BTreeMap::insert: the entry under the key is replaced.
MapInsert(m, k, v) == [x \in (DOMAIN m) \cup {k} |-> IF x = k THEN v ELSE m[x]]

HttpRouterConfiguration(rule, service) == [rule |-> rule, service |-> service]

\* HttpServiceConfiguration { LoadBalancer { servers: vec![ServiceUrl::new(url)] } }
HttpServiceConfiguration(url) == [servers |-> <<url>>]

DynamicConfigurationBuilder_new(url) ==
    [routers |-> EmptyMap, services |-> EmptyMap, base_url |-> url]

NoPublicPort(name) == [kind |-> "NoPublicPort", container |-> Some(name)]
InvalidBaseUrl == [kind |-> "InvalidBaseUrl", container |-> None]
DockerFailure == [kind |-> "Docker", container |-> None]

BuildOk(b) == [ok |-> TRUE, builder |-> b, error |-> None]
BuildErr(b, e) == [ok |-> FALSE, builder |-> b, error |-> Some(e)]

\* Mutant of FirstPort: the last published port.
FirstPort_last(ports) == IF Len(ports) = 0 THEN None ELSE Some(ports[Len(ports)])

\* container.public_ports.first()
FirstPort(ports) == IF Len(ports) = 0 THEN None ELSE Some(ports[1])

\* Mutant of Register: the router names itself as its service.
Register_self(b, service_name, url, router_name, rule) ==
    [b EXCEPT
       !.services = MapInsert(b.services, service_name, HttpServiceConfiguration(url)),
       !.routers = MapInsert(b.routers, router_name,
                             HttpRouterConfiguration(rule, router_name))]

\* self.services.insert(..); self.routers.insert(..)
Register(b, service_name, url, router_name, rule) ==
    [b EXCEPT
       !.services = MapInsert(b.services, service_name, HttpServiceConfiguration(url)),
       !.routers = MapInsert(b.routers, router_name,
                             HttpRouterConfiguration(rule, service_name))]

\* Mutant of AddSinglePort: a container without a published port is passed over.
AddSinglePort_skip(b, container) ==
    LET public_port == FirstPort(container.public_ports)
    IN  IF ~IsSome(public_port) THEN BuildOk(b)
        ELSE LET u == set_port(b.base_url, Unwrap(public_port))
             IN  IF ~u.ok THEN BuildErr(b, InvalidBaseUrl)
                 ELSE BuildOk(Register(b, container.name, u.url,
                                       container.config.router_name,
                                       container.config.rule))

\* dynamic_configuration.rs:82-112
AddSinglePort(b, container) ==
    LET service_name == container.name
        public_port == FirstPort(container.public_ports)
    IN  IF ~IsSome(public_port) THEN BuildErr(b, NoPublicPort(service_name))
        ELSE LET u == set_port(b.base_url, Unwrap(public_port))
             IN  IF ~u.ok THEN BuildErr(b, InvalidBaseUrl)
                 ELSE BuildOk(Register(b, service_name, u.url,
                                       container.config.router_name,
                                       container.config.rule))

\* dynamic_configuration.rs:113-140: the loop over the entries, `?` leaving it.
RECURSIVE AddMultiplePorts(_, _)
AddMultiplePorts(b, entries) ==
    IF Len(entries) = 0 THEN BuildOk(b)
    ELSE LET c == Head(entries)
             u == set_port(b.base_url, c.target_port)
         IN  IF ~u.ok THEN BuildErr(b, InvalidBaseUrl)
             ELSE AddMultiplePorts(
                      Register(b, c.service_name, u.url, c.config.router_name, c.config.rule),
                      Tail(entries))

add_container(b, container) ==
    IF container.config.tag = "SinglePort"
    THEN AddSinglePort(b, container)
    ELSE AddMultiplePorts(b, container.config.entries)

\* DynamicConfiguration { http: HttpConfiguration { routers, services } }
build(b) == [routers |-> b.routers, services |-> b.services]

----------------------------------------------------------------------------
(* The label maps of the containers the engine may list *)

RuleG == <<"g">>
Port8080 == <<"8", "0", "8", "0">>

SingleH == (RouterKey(NameA) :> RuleH)
SingleG == (RouterKey(NameA) :> RuleG)
Multi ==
    (RouterKey(NameA) :> RuleH) @@ (RouterKey(NameB) :> RuleG) @@
    (ServiceKey(NameA) :> Port80) @@ (ServiceKey(NameB) :> Port8080)
\* two routers, one service
Short ==
    (RouterKey(NameA) :> RuleH) @@ (RouterKey(NameB) :> RuleG) @@
    (ServiceKey(NameA) :> Port80)
\* a rule and its ruleSyntax, two services
Twice ==
    (RouterKey(NameA) :> RuleH) @@ (RuleSyntaxKey(NameA) :> RuleG) @@
    (ServiceKey(NameA) :> Port80) @@ (ServiceKey(NameB) :> Port8080)

NormalLabels == { Some(SingleH), Some(Multi) }
OddLabels == { None, Some(EmptyMap), Some(SingleG), Some(Short), Some(Twice) }

\* extract_traefik_config on the engine's label maps, computed once per map
\* and iteration order.
ExtractionOf ==
    [l \in { Unwrap(o) : o \in (NormalLabels \cup OddLabels) \ {None} } |->
        [order \in IterOrders(DOMAIN l) |-> extract_traefik_config(l, order)]]

----------------------------------------------------------------------------
(* lib.rs: TryFrom<ContainerSummary> for TraefikedContainer *)

ContainerSummary(names, ports, lbls) == [names |-> names, ports |-> ports, labels |-> lbls]
Port(public_port) == [public_port |-> public_port]

TraefikedContainer(name, public_ports, cfg) ==
    [name |-> name, public_ports |-> public_ports, config |-> cfg]

\* s[1..]: panics when byte 1 is past the end or inside a character.
SliceFrom1(s) ==
    IF Len(s) = 0 \/ Utf8Len(s[1]) # 1
    THEN [panic |-> TRUE, value |-> s]
    ELSE [panic |-> FALSE, value |-> Tail(s)]

\* .iter().filter_map(|p| p.public_port).collect()
RECURSIVE PublicPorts(_)
PublicPorts(ports) ==
    IF Len(ports) = 0 THEN << >>
    ELSE (IF IsSome(Head(ports).public_port) THEN <<Unwrap(Head(ports).public_port)>> ELSE << >>)
         \o PublicPorts(Tail(ports))

\* value.labels.as_ref().and_then(extract_traefik_config)
LabelsConfig(value, order) ==
    IF IsSome(value.labels) THEN ExtractionOf[Unwrap(value.labels)][order].config
    ELSE None

Converted(c) == [kind |-> "Ok", container |-> Some(c)]
Failed(kind) == [kind |-> kind, container |-> None]

\* The statements run in this order: the name, the ports, the labels.
try_from(value, order) ==
    IF ~IsSome(value.names) THEN Failed("MissingName")
    ELSE IF Len(Unwrap(value.names)) = 0 THEN Failed("Panic")
    ELSE LET name == SliceFrom1(Unwrap(value.names)[1])
         IN  IF name.panic THEN Failed("Panic")
             ELSE IF ~IsSome(value.ports) THEN Failed("MissingPorts")
             ELSE IF ~IsSome(LabelsConfig(value, order)) THEN Failed("NoRoutingConfig")
             ELSE Converted(TraefikedContainer(name.value,
                                               PublicPorts(Unwrap(value.ports)),
                                               Unwrap(LabelsConfig(value, order))))

----------------------------------------------------------------------------
(* The containers the engine may list *)

SlashA == <<"/", "a">>
SlashB == <<"/", "b">>

NormalNames == { Some(<<SlashA>>), Some(<<SlashB>>) }
OddNames ==
    { None,                          \* names: None
      Some(<< >>),                   \* names: Some(vec![])
      Some(<< << >> >>),             \* an empty name
      Some(<< <<"a", "b">> >>),      \* no leading separator
      Some(<< <<EAcute, "a">> >>) }  \* a first character of two bytes

TwoPorts == Some(<<Port(Some(8080)), Port(Some(7878))>>)

NormalPorts == { Some(<< >>), TwoPorts }
OddPorts ==
    { None,                                      \* ports: None
      Some(<<Port(None), Port(Some(80))>>) }     \* a port that is not published

\* Every combination of the usual fields, and each unusual field beside usual ones.
RawContainers ==
    { ContainerSummary(n, p, l) : n \in NormalNames, p \in NormalPorts, l \in NormalLabels }
    \cup { ContainerSummary(n, TwoPorts, Some(SingleH)) : n \in OddNames }
    \cup { ContainerSummary(Some(<<SlashA>>), p, Some(SingleH)) : p \in OddPorts }
    \cup { ContainerSummary(Some(<<SlashA>>), TwoPorts, l) : l \in OddLabels }

EngineLists == UNION { [1..n -> RawContainers] : n \in 0..MaxContainers }

----------------------------------------------------------------------------
(* State *)

NoCall(b) == [called |-> FALSE, container |-> None, before |-> b, ok |-> FALSE]
NoResponse == [sent |-> FALSE, status |-> 0, document |-> None, error |-> None]

\* (headers, payload).into_response(): 200 and the document.
DocumentResponse(doc) == [sent |-> TRUE, status |-> 200, document |-> Some(doc), error |-> None]
\* AppError::into_response: 500 and {"error": message}.
ErrorResponse(e) == [sent |-> TRUE, status |-> 500, document |-> None, error |-> Some(e)]

RequestInit(b) ==
    /\ base_url = b
    /\ engine = << >>
    /\ pc = "idle"
    /\ scanned = 0
    /\ labeled = << >>
    /\ idx = 0
    /\ builder = DynamicConfigurationBuilder_new(b)
    /\ last = NoCall(DynamicConfigurationBuilder_new(b))
    /\ adapter = << >>
    /\ response = NoResponse

ExtractInit(lbls) ==
    /\ labels = lbls
    /\ routers = << >>
    /\ services = << >>
    /\ config = None
    /\ xpc = "ready"

----------------------------------------------------------------------------
(* The extractor on its own: every label map within the bounds *)

InitExtract ==
    /\ \E lbls \in LabelMaps : ExtractInit(lbls)
    /\ RequestInit(Url("http", Some("192.168.1.100"), None))

Extract ==
    /\ xpc = "ready"
    /\ \E order \in IterOrders(DOMAIN labels) :
         \E r \in { extract_traefik_config(labels, order) } :
             /\ routers' = r.routers
             /\ services' = r.services
             /\ config' = r.config
    /\ xpc' = "done"
    /\ UNCHANGED <<labels, base_url, engine, pc, scanned, labeled, idx, builder, last,
                   adapter, response>>

NextExtract == Extract

SpecExtract == InitExtract /\ [][NextExtract]_vars

----------------------------------------------------------------------------
(* A /dynamic_configuration request *)

Init ==
    /\ ExtractInit(EmptyMap)
    /\ \E b \in BaseUrls : RequestInit(b)

\* docker.rs:5-9: the engine answers with its containers.
ListContainers ==
    /\ pc = "idle"
    /\ \E cs \in EngineLists : engine' = cs
    /\ pc' = "scan"
    /\ UNCHANGED <<labels, routers, services, config, xpc, base_url, scanned, labeled, idx,
                   builder, last, adapter, response>>

\* docker.rs:5-9 and main.rs:59: connecting or listing fails, `?` returns the error.
DockerError ==
    /\ pc = "idle"
    /\ pc' = "done"
    /\ response' = ErrorResponse(DockerFailure)
    /\ UNCHANGED <<labels, routers, services, config, xpc, base_url, engine, scanned,
                   labeled, idx, builder, last, adapter>>

\* docker.rs:10-14, one container through .filter(..).cloned().filter_map(..).
ScanOutcome(c, order) ==
    IF ~IsSome(LabelsConfig(c, order)) THEN Failed("Filtered") ELSE try_from(c, order)

\* Mutant of AfterScan: a failed conversion ends the request with an error.
AfterScan_failfast(kind, resp) ==
    IF kind = "Panic" THEN [pc |-> "panicked", response |-> resp]
    ELSE IF kind \in {"MissingName", "MissingPorts", "NoRoutingConfig"}
    THEN [pc |-> "done",
          response |-> [sent |-> TRUE, status |-> 500, document |-> None,
                        error |-> Some([kind |-> kind, container |-> None])]]
    ELSE [pc |-> "scan", response |-> resp]

\* docker.rs:13 `c.try_into().ok()`: an Err becomes None and the chain goes on
\* with the next container; only a panic leaves it, and the handler with it.
AfterScan(kind, resp) ==
    IF kind = "Panic" THEN [pc |-> "panicked", response |-> resp]
    ELSE [pc |-> "scan", response |-> resp]

\* The locals of the extraction the filter ran, when the container has labels.
ScanExtraction(c, order) ==
    IF IsSome(c.labels)
    THEN LET e == ExtractionOf[Unwrap(c.labels)][order]
         IN  [labels |-> Unwrap(c.labels), routers |-> e.routers, services |-> e.services,
              config |-> e.config, xpc |-> "done"]
    ELSE [labels |-> labels, routers |-> routers, services |-> services,
          config |-> config, xpc |-> xpc]

ScanContainer ==
    /\ pc = "scan"
    /\ scanned < Len(engine)
    /\ \E c \in { engine[scanned + 1] } :
         \E order \in IterOrders(IF IsSome(c.labels) THEN DOMAIN Unwrap(c.labels) ELSE {}) :
           \E r \in { ScanOutcome(c, order) }, x \in { ScanExtraction(c, order) } :
             /\ adapter' = Append(adapter, r.kind)
             /\ labeled' = IF r.kind = "Ok" THEN Append(labeled, Unwrap(r.container))
                           ELSE labeled
             /\ pc' = AfterScan(r.kind, response).pc
             /\ response' = AfterScan(r.kind, response).response
             /\ labels' = x.labels
             /\ routers' = x.routers
             /\ services' = x.services
             /\ config' = x.config
             /\ xpc' = x.xpc
    /\ scanned' = scanned + 1
    /\ UNCHANGED <<base_url, engine, idx, builder, last>>

\* docker.rs:14-16 and main.rs:59-61: the collected containers reach the handler.
Collect ==
    /\ pc = "scan"
    /\ scanned = Len(engine)
    /\ pc' = "build"
    /\ UNCHANGED <<labels, routers, services, config, xpc, base_url, engine, scanned,
                   labeled, idx, builder, last, adapter, response>>

\* main.rs:62-64: one turn of the loop; an error leaves the handler with 500.
AddContainer ==
    /\ pc = "build"
    /\ idx < Len(labeled)
    /\ LET c == labeled[idx + 1]
           r == add_container(builder, c)
       IN  /\ last' = [called |-> TRUE, container |-> Some(c), before |-> builder, ok |-> r.ok]
           /\ IF r.ok
              THEN /\ builder' = r.builder
                   /\ idx' = idx + 1
                   /\ UNCHANGED <<pc, response>>
              ELSE /\ pc' = "done"
                   /\ response' = ErrorResponse(Unwrap(r.error))
                   /\ UNCHANGED <<builder, idx>>
    /\ UNCHANGED <<labels, routers, services, config, xpc, base_url, engine, scanned,
                   labeled, adapter>>

\* main.rs:66: Ok(dynamic_configuration_builder.build())
Build ==
    /\ pc = "build"
    /\ idx = Len(labeled)
    /\ pc' = "done"
    /\ response' = DocumentResponse(build(builder))
    /\ UNCHANGED <<labels, routers, services, config, xpc, base_url, engine, scanned,
                   labeled, idx, builder, last, adapter>>

Next ==
    \/ ListContainers
    \/ DockerError
    \/ ScanContainer
    \/ Collect
    \/ AddContainer
    \/ Build

Spec == Init /\ [][Next]_vars

----------------------------------------------------------------------------
(* The label-key grammar of the specification: the whole key, literal dots *)

RouterKeyPrefix == Cat(<<W_traefik, Dot, W_http, Dot, W_routers, Dot>>)
RouterKeySuffix == Cat(<<Dot, W_rule>>)
ServiceKeyPrefix == Cat(<<W_traefik, Dot, W_http, Dot, W_services, Dot>>)
ServiceKeySuffix == Cat(<<Dot, W_loadbalancer, Dot, W_server, Dot, W_port>>)

HasForm(k, pre, suf) ==
    /\ Len(k) > Len(pre) + Len(suf)
    /\ SubSeq(k, 1, Len(pre)) = pre
    /\ SubSeq(k, Len(k) - Len(suf) + 1, Len(k)) = suf

NameIn(k, pre, suf) == SubSeq(k, Len(pre) + 1, Len(k) - Len(suf))

IsRouterRuleKey(k) == HasForm(k, RouterKeyPrefix, RouterKeySuffix)
RouterNameIn(k) == NameIn(k, RouterKeyPrefix, RouterKeySuffix)
IsServicePortKey(k) == HasForm(k, ServiceKeyPrefix, ServiceKeySuffix)
ServiceNameIn(k) == NameIn(k, ServiceKeyPrefix, ServiceKeySuffix)

RouterRuleKeys == { k \in DOMAIN labels : IsRouterRuleKey(k) }
ServicePortKeys == { k \in DOMAIN labels : IsServicePortKey(k) }
ValidServicePortKeys == { k \in ServicePortKeys : IsSome(ParseU16(labels[k])) }

\* The key of S that has i-1 keys of S with a smaller name before it.
NthByName(S, NameOf(_), i) ==
    CHOOSE k \in S : Cardinality({ j \in S : StrLess(NameOf(j), NameOf(k)) }) = i - 1

ExpectedEntries ==
    [i \in 1..Cardinality(RouterRuleKeys) |->
        LET rk == NthByName(RouterRuleKeys, RouterNameIn, i)
            sk == NthByName(ServicePortKeys, ServiceNameIn, i)
        IN  [config |-> [router_name |-> RouterNameIn(rk), rule |-> labels[rk]],
             service_name |-> ServiceNameIn(sk),
             target_port |-> Unwrap(ParseU16(labels[sk]))]]

----------------------------------------------------------------------------
(* Claims about extract_traefik_config, checked under SpecExtract *)

\* C1: a label map with N > 1 router-rule keys and exactly N service/port keys,
\* all with u16 values, yields MultiplePorts with N entries, the i-th pairing
\* the i-th router by name with the i-th service by name, whatever the
\* iteration order of the map.
C1_SortedZip ==
    (/\ xpc = "done"
     /\ Cardinality(RouterRuleKeys) > 1
     /\ Cardinality(ServicePortKeys) = Cardinality(RouterRuleKeys)
     /\ ValidServicePortKeys = ServicePortKeys)
    => config = Some(MultiplePorts(ExpectedEntries))

\* C2: with N > 1 router-rule keys and a number of service/port keys with a
\* u16 value other than N, the result is None.
C2_ArityMismatchIsNone ==
    (/\ xpc = "done"
     /\ Cardinality(RouterRuleKeys) > 1
     /\ Cardinality(ValidServicePortKeys) # Cardinality(RouterRuleKeys))
    => config = None

\* C3: exactly one router-rule key yields SinglePort with its name and rule,
\* whatever service/port labels are present; no router-rule key yields None.
C3_OneRouterIsSinglePort ==
    xpc = "done" =>
        /\ \A k \in RouterRuleKeys :
             RouterRuleKeys = {k} => config = Some(SinglePort(RouterNameIn(k), labels[k]))
        /\ RouterRuleKeys = {} => config = None

\* C8: only a key that has the exact form as a whole contributes a router pair
\* or a service pair; a key that merely contains the pattern contributes none.
C8_ExactKeysOnly ==
    xpc = "done" =>
        /\ Len(routers) = Cardinality(RouterRuleKeys)
        /\ \A i \in 1..Len(routers) :
             \E k \in RouterRuleKeys : routers[i] = <<RouterNameIn(k), labels[k]>>
        /\ Len(routers) > 1 =>
             /\ Len(services) = Cardinality(ValidServicePortKeys)
             /\ \A i \in 1..Len(services) :
                  \E k \in ValidServicePortKeys :
                     services[i] = <<ServiceNameIn(k), Unwrap(ParseU16(labels[k]))>>

----------------------------------------------------------------------------
(* Claims about a request, checked under Spec *)

CanCarryPort(url) == IsSome(url.host) /\ url.host # Some("") /\ url.scheme # "file"

LastContainer == Unwrap(last.container)

\* The port a URL names: its own, or the one its scheme implies.
PortOrKnownDefault(url) == IF IsSome(url.port) THEN url.port ELSE DefaultPort(url.scheme)

\* url is the base address with its port replaced by port.
IsBaseWithPort(url, port) ==
    /\ url.scheme = base_url.scheme
    /\ url.host = base_url.host
    /\ PortOrKnownDefault(url) = Some(port)

\* m2 is m1 with exactly the entry under k added or replaced.
OneEntryWritten(m1, m2, k) ==
    /\ DOMAIN m2 = (DOMAIN m1) \cup {k}
    /\ \A x \in (DOMAIN m1) \ {k} : m2[x] = m1[x]

\* C4: a SinglePort container with published ports, on a base address that can
\* carry a port, registers one service under the container's name whose only
\* backend is the base address with the first published port, and one router
\* under the router name with the rule, pointing at that service.
C4_SinglePortFirstPort ==
    (/\ last.called
     /\ LastContainer.config.tag = "SinglePort"
     /\ Len(LastContainer.public_ports) > 0
     /\ CanCarryPort(base_url))
    => /\ last.ok
       /\ OneEntryWritten(last.before.services, builder.services, LastContainer.name)
       /\ Len(builder.services[LastContainer.name].servers) = 1
       /\ IsBaseWithPort(builder.services[LastContainer.name].servers[1],
                         LastContainer.public_ports[1])
       /\ OneEntryWritten(last.before.routers, builder.routers,
                          LastContainer.config.router_name)
       /\ builder.routers[LastContainer.config.router_name] =
            [rule |-> LastContainer.config.rule, service |-> LastContainer.name]

\* A SinglePort container with two different published ports was added.
C4_Witness ==
    /\ last.called
    /\ last.ok
    /\ LastContainer.config.tag = "SinglePort"
    /\ Len(LastContainer.public_ports) > 1
    /\ LastContainer.public_ports[1] # LastContainer.public_ports[2]

AdapterErrors == {"MissingName", "MissingPorts", "NoRoutingConfig"}

AdapterFailed == \E i \in 1..Len(adapter) : adapter[i] \in AdapterErrors

\* C5 as stated: a request in which the adapter failed for a container is
\* answered with 500.
C5_AdapterFailureIs500 ==
    (pc = "done" /\ AdapterFailed) => response.status = 500

\* C5 amended: a container for which the adapter fails is dropped and the
\* request goes on with the others; a 500 comes only from the engine or from
\* the builder, and when the builder takes every converted container the
\* answer is 200 with the document built from them.
C5_AdapterFailureSkips ==
    /\ Len(adapter) = scanned
    /\ Len(labeled) = Cardinality({ i \in 1..Len(adapter) : adapter[i] = "Ok" })
    /\ (AdapterFailed /\ pc \in {"build", "done"}) => scanned = Len(engine)
    /\ (response.sent /\ response.status = 500) =>
          \/ Unwrap(response.error).kind = "Docker" /\ scanned = 0
          \/ /\ last.called
             /\ ~last.ok
             /\ Unwrap(response.error).kind \in {"NoPublicPort", "InvalidBaseUrl"}
    /\ (AdapterFailed /\ pc = "done" /\ idx = Len(labeled)) =>
          response = DocumentResponse(build(builder))

\* The adapter failed for one container and the request was answered with
\* the document of another.
C5_Witness ==
    /\ pc = "done"
    /\ AdapterFailed
    /\ response.status = 200
    /\ Len(labeled) > 0
    /\ DOMAIN Unwrap(response.document).routers # {}

\* What a container writes, in the order it writes it.
Declared(c) ==
    IF c.config.tag = "SinglePort"
    THEN << [router |-> c.config.router_name, rule |-> c.config.rule,
             service |-> c.name, port |-> c.public_ports[1]] >>
    ELSE [i \in 1..Len(c.config.entries) |->
            [router |-> c.config.entries[i].config.router_name,
             rule |-> c.config.entries[i].config.rule,
             service |-> c.config.entries[i].service_name,
             port |-> c.config.entries[i].target_port]]

RECURSIVE AllDeclared(_)
AllDeclared(cs) == IF Len(cs) = 0 THEN << >> ELSE Declared(Head(cs)) \o AllDeclared(Tail(cs))

\* The containers add_container has taken.
Added == SubSeq(labeled, 1, idx)

LastWriterWins(ds) ==
    LET LastRouter(k) == SetMax({ j \in 1..Len(ds) : ds[j].router = k })
        LastService(n) == SetMax({ j \in 1..Len(ds) : ds[j].service = n })
    IN  /\ DOMAIN builder.routers = { ds[j].router : j \in 1..Len(ds) }
        /\ \A k \in DOMAIN builder.routers :
             builder.routers[k] = [rule |-> ds[LastRouter(k)].rule,
                                   service |-> ds[LastRouter(k)].service]
        /\ DOMAIN builder.services = { ds[j].service : j \in 1..Len(ds) }
        /\ \A n \in DOMAIN builder.services :
             /\ Len(builder.services[n].servers) = 1
             /\ IsBaseWithPort(builder.services[n].servers[1], ds[LastService(n)].port)

\* C6: every router and service entry is the one written by the last container
\* (and within it the last entry) that declared its key; the document returned
\* holds these entries, and a repeated key is no error.
C6_LastWriterWins ==
    /\ LastWriterWins(AllDeclared(Added))
    /\ (response.sent /\ response.status = 200) =>
          /\ idx = Len(labeled)
          /\ Unwrap(response.document) =
               [routers |-> builder.routers, services |-> builder.services]

\* A document was returned after a router key was written twice, with
\* different rules and services.
C6_Witness ==
    /\ response.sent
    /\ response.status = 200
    /\ \E i, j \in 1..Len(AllDeclared(Added)) :
         /\ i < j
         /\ AllDeclared(Added)[i].router = AllDeclared(Added)[j].router
         /\ AllDeclared(Added)[i].rule # AllDeclared(Added)[j].rule
         /\ AllDeclared(Added)[i].service # AllDeclared(Added)[j].service

\* C7: a SinglePort container without a published port makes add_container
\* fail with NoPublicPort naming it, and the request is answered with 500 and
\* that error, without a document; a MultiplePorts container without a
\* published port does not raise this error.
C7_NoPublicPort ==
    /\ (/\ last.called
        /\ LastContainer.config.tag = "SinglePort"
        /\ Len(LastContainer.public_ports) = 0)
       => /\ ~last.ok
          /\ pc = "done"
          /\ response = ErrorResponse(NoPublicPort(LastContainer.name))
          /\ response.status = 500
          /\ response.document = None
    /\ (/\ last.called
        /\ LastContainer.config.tag = "MultiplePorts"
        /\ Len(LastContainer.public_ports) = 0)
       => /\ CanCarryPort(base_url) => last.ok
          /\ response.sent /\ response.status = 500 =>
                Unwrap(response.error).kind # "NoPublicPort"

\* After one container was added, a SinglePort container without a published
\* port ended the request with 500.
C7_Witness ==
    /\ last.called
    /\ LastContainer.config.tag = "SinglePort"
    /\ Len(LastContainer.public_ports) = 0
    /\ idx > 0
    /\ response.status = 500

\* The name with one leading separator removed, when it starts with one.
StripLeadingSeparator(name) ==
    IF Len(name) > 0 /\ name[1] = "/" THEN Tail(name) ELSE name

\* C9: the adapter removes one leading '/' from the name if and only if the
\* name starts with it, keeps any other name as it is, and never panics
\* because of the name.
C9_StripsOnlyLeadingSeparator ==
    (/\ scanned > 0
     /\ IsSome(engine[scanned].names)
     /\ Len(Unwrap(engine[scanned].names)) > 0)
    => /\ adapter[scanned] # "Panic"
       /\ adapter[scanned] = "Ok" =>
            labeled[Len(labeled)].name =
                StripLeadingSeparator(Unwrap(engine[scanned].names)[1])

WellFormed(rs, ss) ==
    /\ \A r \in DOMAIN rs : rs[r].service \in DOMAIN ss
    /\ \A n \in DOMAIN ss :
         /\ Len(ss[n].servers) = 1
         /\ ss[n].servers[1].scheme = builder.base_url.scheme
         /\ ss[n].servers[1].host = builder.base_url.host

\* C10: in the builder after any successful add_container calls, and in the
\* document returned, every router's service is a key of the services, and
\* every service has one backend URL with the base address's scheme and host.
C10_ReferentialIntegrity ==
    /\ WellFormed(builder.routers, builder.services)
    /\ response.sent /\ response.status = 200 =>
          WellFormed(Unwrap(response.document).routers, Unwrap(response.document).services)

\* A document with two routers on two services was returned.
C10_Witness ==
    /\ response.sent
    /\ response.status = 200
    /\ Cardinality(DOMAIN Unwrap(response.document).routers) > 1
    /\ Cardinality(DOMAIN Unwrap(response.document).services) > 1

=============================================================================
